---- MODULE Spec2Model ----
(***************************************************************************)
(* The playback / interpolation engine of the EEG dashboard (component     *)
(* App), as a state machine.                                                *)
(*                                                                         *)
(* The repository holds four copies of App.  Three of them (the gauges     *)
(* dashboard of src/arrow_no_yellow.js:329, and the two dashboards of      *)
(* src/unnamed/part_000:450 and :935) have the same load callback, tick     *)
(* and button handlers, line for line; the radar-only copy                  *)
(* (src/arrow_no_yellow.js:756) differs in its load callback and in its     *)
(* Reset / Prev / Next handlers.  The variable variant tells the two        *)
(* engines apart.                                                           *)
(*                                                                         *)
(* React state (useState) and refs (useRef) are modelled as React runs      *)
(* them under automatic batching (React 18 createRoot):                     *)
(*   - a setter called from the animation-frame callback does not change    *)
(*     the state: it queues an update, and React applies the queue in a     *)
(*     later task (action Render), which re-runs the tick effect when one   *)
(*     of its dependencies changed;                                         *)
(*   - a setter called from a click handler is applied before the handler's *)
(*     event ends, after the updates already queued, in queue order;        *)
(*   - a ref is written at once, and writing it renders nothing: the view   *)
(*     keeps the reading of the last render (variable tt).                   *)
(* Each pending animation-frame callback carries the values its tick         *)
(* closure captured (playing, i, subjectIndex) when the effect armed it.     *)
(* subjectIndex, i and playing are the values of the last render: they are  *)
(* what the armed tick and the buttons' handlers have closed over.          *)
(*                                                                         *)
(* interpolationFraction (tRef.current) is kept as tRef = fraction x        *)
(* msPerStep, an integer number of milliseconds in 0..msPerStep, so that    *)
(* Math.min(1, t + dt / msPerStep) is Min(msPerStep, tRef + dt).            *)
(* Floating-point rounding of the quotient is not modelled.                 *)
(*                                                                         *)
(* Specifications:                                                          *)
(*   Spec          load, ticks, renders and the four buttons;               *)
(*   RunSpec       playback left alone (no click), with fairness;           *)
(*   TeardownSpec  Spec and the unmount of App;                             *)
(*   CallSpec      one call of a helper (computeStrokeSeverity, the ratios, *)
(*                 Sample) on inputs drawn from small sets.                 *)
(***************************************************************************)
EXTENDS Integers, Sequences, FiniteSets, TLC

\* ---------------------------------------------------------------- bounds
MaxSubjects == 3        \* subjects in a dataset: 0..MaxSubjects
MaxTrials == 3          \* trials of a subject: 1..MaxTrials
MaxTs == 4200           \* last frame timestamp explored (ms)
MaxHistory == 8         \* rows of a series handed to the slope chart: 1..MaxHistory
MaxRows == 3            \* rows of a parsed file: 0..MaxRows

\* elapsed time between two animation frames (ms): half a step, a full
\* step, and more than two steps (a throttled or janky frame)
FrameDeltas == {600, 1200, 3000}

\* ------------------------------------------------------ program constants
msPerStep == 1200
step == 1

\* "dashboard" stands for the three copies with the same engine code
Variants == {"dashboard", "radarOnly"}

\* the copies whose Reset / Prev / Next handlers end with setPlaying(true)
\* and whose load callback resets the cursor
ResumesOnCommand(v) == v # "radarOnly"

Min(a, b) == IF a <= b THEN a ELSE b

\* --------------------------------------------------------------- dataset
\* One parsed row.  Values are fixed by (subject, trial) so that a dataset
\* is determined by the lengths of its series.
TrialSample(s, k) == [subject |-> s, t |-> k, alpha |-> 10 * s + k]

SubjectSeries(s, len) == [k \in 1..len |-> TrialSample(s, k)]

\* what the load callback can hand to setSubjects: 0..MaxSubjects series,
\* each non-empty (a group exists only for a subject that has a row) and
\* sorted by trial number
Datasets ==
    UNION { { [s \in 1..n |-> SubjectSeries(s, lens[s])] :
                lens \in [1..n -> 1..MaxTrials] } : n \in 0..MaxSubjects }

VARIABLES
    variant,       \* which copy of App runs
    loaded,        \* the Papa.parse complete callback has run
    subjects,      \* useState([]): the dataset, a sequence of series
    subjectIndex,  \* useState(0), 0-based as in the source
    i,             \* useState(0), 0-based trial position
    playing,       \* useState(true)
    tRef,          \* useRef(0): interpolationFraction x msPerStep
    lastTsRef,     \* useRef(0): frame-timing reference, 0 = unset
    rafRef,        \* useRef(null): handle of the last requested frame, 0 = null
    rafPending,    \* the animation-frame callbacks not yet run: handle and
                   \* the render whose tick closure it is
    pending,       \* state updates queued by ticks, not yet rendered
    schedTs,       \* timestamp of the tick that queued the oldest of them
    now,           \* timestamp of the latest animation frame (ms)
    tt,            \* const tt = tRef.current, as read by the last render
    mounted,       \* the view exists (App has not been unmounted)
    call,          \* the helper call under study (specification CallSpec)
    lastOp,        \* history: the operation that led to this state
    run            \* history: elapsed time ticks added since the cursor was
                   \* put on trial 0 of run.subject, no command since

vars == <<variant, loaded, subjects, subjectIndex, i, playing, tRef,
          lastTsRef, rafRef, rafPending, pending, schedTs, now, tt, mounted,
          call, lastOp, run>>

\* ------------------------------------------------------ queued updates
SetI(v) == [op |-> "setI", arg |-> v]
\* fault: the trial advance jumps to the last trial instead of stepping
StepI_Skips(lastIndex) == [op |-> "setI", arg |-> lastIndex]

StepI(lastIndex) == [op |-> "stepI", arg |-> lastIndex]
SetSubjectIndex(v) == [op |-> "setSubjectIndex", arg |-> v]
\* fault: the subject advance goes back to the first subject
IncSubjectIndex_Restarts == [op |-> "setSubjectIndex", arg |-> 0]

IncSubjectIndex == [op |-> "incSubjectIndex", arg |-> 0]
SetPlaying(b) == [op |-> "setPlaying", arg |-> IF b THEN 1 ELSE 0]
FlipPlaying == [op |-> "flipPlaying", arg |-> 0]

ApplyUpdate(st, u) ==
    CASE u.op = "setI" -> [st EXCEPT !.i = u.arg]
      [] u.op = "stepI" -> [st EXCEPT !.i = Min(@ + step, u.arg)]
      [] u.op = "setSubjectIndex" -> [st EXCEPT !.subjectIndex = u.arg]
      [] u.op = "incSubjectIndex" -> [st EXCEPT !.subjectIndex = @ + 1]
      [] u.op = "setPlaying" -> [st EXCEPT !.playing = (u.arg = 1)]
      [] u.op = "flipPlaying" -> [st EXCEPT !.playing = ~@]

RECURSIVE ApplyQueue(_, _)
ApplyQueue(q, st) ==
    IF q = <<>> THEN st ELSE ApplyQueue(Tail(q), ApplyUpdate(st, Head(q)))

\* the state of the last render
Rendered == [subjectIndex |-> subjectIndex, i |-> i, playing |-> playing]

\* the cursor: the rendered state with the queued updates applied
Cursor == ApplyQueue(pending, Rendered)

\* const current = subjects[subjectIndex] || [];
CurrentOf(subs, si) == IF si \in 0..(Len(subs) - 1) THEN subs[si + 1] ELSE <<>>

Current == CurrentOf(subjects, subjectIndex)

\* requestAnimationFrame returns a handle no pending callback has
NewHandle(S) == CHOOSE n \in 1..(Cardinality(S) + 1) :
                    n \notin S /\ \A m \in 1..(n - 1) : m \in S

\* a pending callback: tick, of the effect run of the render st
Callback(h, st) == [handle |-> h, closure |-> st]

Handles(S) == {cb.handle : cb \in S}

\* fault: the cleanup of the tick effect cancels nothing
Cancel_Nothing(S, h) == S

\* cancelAnimationFrame(h)
Cancel(S, h) == {cb \in S : cb.handle # h}

\* fault: the tick effect arms a tick whatever current holds
Armable_Always(cur) == TRUE

\* if (current.length === 0) return;  the tick effect arms nothing when
\* current is empty
Armable(cur) == Len(cur) > 0

\* React applies the queue q and the dataset subs, renders, and runs the
\* tick effect when a dependency changed: the cleanup of the previous run
\* (present when that run armed a tick) cancels the frame rafRef names, and
\* the new run arms a tick unless current is empty.  The array the load
\* callback hands to setSubjects is a new one, so the load always renders,
\* and current, a fresh [] while the dataset is empty, is then a changed
\* dependency.
Commit(q, subs) ==
    LET st == ApplyQueue(q, Rendered)
        depsChanged == st # Rendered \/ subs # subjects \/ ~loaded
        kept == IF Len(Current) > 0 THEN Cancel(rafPending, rafRef) ELSE rafPending
        cur == CurrentOf(subs, st.subjectIndex)
        h == NewHandle(Handles(kept))
    IN  /\ subjectIndex' = st.subjectIndex
        /\ i' = st.i
        /\ playing' = st.playing
        /\ pending' = <<>>
        /\ schedTs' = 0
        /\ IF ~depsChanged
             THEN UNCHANGED <<rafRef, rafPending>>
             ELSE IF ~Armable(cur)
                    THEN rafPending' = kept /\ UNCHANGED rafRef
                    ELSE /\ rafPending' = kept \cup {Callback(h, st)}
                         /\ rafRef' = h

\* const tt = tRef.current: a render that follows a change of state reads
\* the fraction t the event left; a render that returns the loading text
\* does not get that far, and an event that changes no state renders nothing
Sampled(q, subs, t) ==
    LET st == ApplyQueue(q, Rendered)
    IN  IF (st # Rendered \/ subs # subjects \/ ~loaded)
           /\ Len(CurrentOf(subs, st.subjectIndex)) > 0
          THEN t ELSE tt

\* no helper call is under study
NoCall == [fn |-> "none"]

\* ------------------------------------------------------------- history
NoRun == [subject |-> -1, elapsed |-> 0, fine |-> TRUE]
StartRun(st) == IF st.playing
                  THEN [subject |-> st.subjectIndex, elapsed |-> 0, fine |-> TRUE]
                  ELSE NoRun
AddElapsed(r, dt) ==
    IF r.subject = -1 THEN r
    ELSE [r EXCEPT !.elapsed = Min(4 * msPerStep, @ + dt),
                   !.fine = @ /\ dt <= msPerStep]

\* no run, and Pause/Play has resumed playback where it had finished
ResumedAtEnd == [subject |-> -1, elapsed |-> 0, fine |-> FALSE]

\* what Pause/Play leaves of the history
ToggledRun ==
    IF /\ ~Cursor.playing
       /\ tRef = msPerStep
       /\ Cursor.subjectIndex = Len(subjects) - 1
       /\ Cursor.i = Len(CurrentOf(subjects, Cursor.subjectIndex)) - 1
      THEN ResumedAtEnd ELSE NoRun

\* ----------------------------------------------------------------- Init
Init ==
    /\ variant \in Variants
    /\ loaded = FALSE
    /\ subjects = <<>>
    /\ subjectIndex = 0
    /\ i = 0
    /\ playing = TRUE
    /\ tRef = 0
    /\ lastTsRef = 0
    /\ rafRef = 0
    /\ rafPending = {}
    /\ pending = <<>>
    /\ schedTs = 0
    /\ now = 0
    /\ tt = 0
    /\ mounted = TRUE
    /\ call = NoCall
    /\ lastOp = "init"
    /\ run = NoRun

\* ----------------------------------------------------------------- load
\* the cursor updates the load callback makes besides setSubjects
LoadUpdates(v) ==
    IF ResumesOnCommand(v) THEN <<SetSubjectIndex(0), SetI(0)>> ELSE <<>>

Load(d) ==
    /\ mounted
    /\ ~loaded
    /\ loaded' = TRUE
    /\ subjects' = d
    /\ Commit(pending \o LoadUpdates(variant), d)
    /\ IF ResumesOnCommand(variant)
         THEN tRef' = 0 /\ lastTsRef' = 0
         ELSE UNCHANGED <<tRef, lastTsRef>>
    /\ tt' = Sampled(pending \o LoadUpdates(variant), d, tRef')
    /\ lastOp' = "load"
    /\ run' = IF Len(d) > 0 THEN StartRun([subjectIndex |-> 0, playing |-> playing])
              ELSE NoRun
    /\ UNCHANGED <<variant, now, mounted, call>>

\* ----------------------------------------------------------------- tick
\* fault: the fraction is not clamped to 1
Accumulate_Unclamped(t, dt) == t + dt

\* tRef.current = Math.min(1, tRef.current + dt / msPerStep)
Accumulate(t, dt) == Min(msPerStep, t + dt)

\* if (!lastTsRef.current) lastTsRef.current = ts; const dt = ts - lastTsRef.current
ElapsedAt(ts) == ts - (IF lastTsRef = 0 THEN ts ELSE lastTsRef)

\* rafRef.current = requestAnimationFrame(tick), by the callback cb that
\* runs: the same tick, with the same closure
Rearm(cb) ==
    LET rest == rafPending \ {cb}
        h == NewHandle(Handles(rest))
    IN  /\ rafPending' = rest \cup {Callback(h, cb.closure)}
        /\ rafRef' = h

\* fault: the paused tick stamps the frame-timing reference
PausedTick_Stamps == lastTsRef' = now' /\ UNCHANGED <<tRef, pending>>

\* if (!playing) { re-arm; return; }
PausedTick == UNCHANGED <<tRef, lastTsRef, pending>>

\* fault: the trial advance leaves the fraction at 1
TrialAdvance_KeepsFraction(ts, lastIndex) ==
    /\ pending' = Append(pending, StepI(lastIndex))
    /\ tRef' = msPerStep
    /\ lastTsRef' = ts

\* fault: the trial advance carries the elapsed time beyond the boundary
\* into the next step
TrialAdvance_CarriesExcess(ts, lastIndex) ==
    /\ pending' = Append(pending, StepI(lastIndex))
    /\ tRef' = Min(msPerStep, tRef + (ts - lastTsRef) - msPerStep)
    /\ lastTsRef' = ts

\* if (i < lastIndex) { setI(prev => Math.min(prev + step, lastIndex)); tRef.current = 0; }
TrialAdvance(ts, lastIndex) ==
    /\ pending' = Append(pending, StepI(lastIndex))
    /\ tRef' = 0
    /\ lastTsRef' = ts

\* fault: the subject advance keeps the frame-timing reference
SubjectAdvance_KeepsTs ==
    /\ pending' = pending \o <<IncSubjectIndex, SetI(0)>>
    /\ tRef' = 0
    /\ lastTsRef' = now'

\* setSubjectIndex(prev => prev + 1); setI(0); tRef.current = 0; lastTsRef.current = 0;
SubjectAdvance ==
    /\ pending' = pending \o <<IncSubjectIndex, SetI(0)>>
    /\ tRef' = 0
    /\ lastTsRef' = 0

\* fault: the end of the dataset does not stop playback
Finish_KeepsPlaying(ts, t1) ==
    /\ pending' = pending
    /\ tRef' = t1
    /\ lastTsRef' = ts

\* setPlaying(false)
Finish(ts, t1) ==
    /\ pending' = Append(pending, SetPlaying(FALSE))
    /\ tRef' = t1
    /\ lastTsRef' = ts

\* A pending callback runs at the frame of timestamp ts, with the playing,
\* i and subjectIndex of its closure (the dataset is set once, before any
\* callback is armed).  React schedules the re-render as a task when a tick
\* queues an update; the model lets animation frames and clicks come before
\* that task, as long as the render is not delayed by a full step duration.
TickAt(ts) ==
    \E cb \in rafPending :
        LET c == cb.closure
            dt == ElapsedAt(ts)
            t1 == Accumulate(tRef, dt)
            lastIndex == Len(CurrentOf(subjects, c.subjectIndex)) - 1
        IN  /\ pending = <<>> \/ ts - schedTs < msPerStep
            /\ Rearm(cb)
            /\ now' = ts
            /\ lastOp' = "tick"
            /\ IF ~c.playing
                 THEN PausedTick /\ UNCHANGED <<schedTs, run>>
                 ELSE /\ run' = AddElapsed(run, dt)
                      /\ IF t1 >= msPerStep
                           THEN IF c.i < lastIndex
                                  THEN TrialAdvance(ts, lastIndex)
                                  ELSE IF c.subjectIndex < Len(subjects) - 1
                                         THEN SubjectAdvance
                                         ELSE Finish(ts, t1)
                           ELSE /\ pending' = pending
                                /\ tRef' = t1
                                /\ lastTsRef' = ts
                      /\ schedTs' = IF pending = <<>> /\ pending' # <<>>
                                      THEN ts ELSE schedTs
            /\ UNCHANGED <<variant, loaded, subjects, subjectIndex, i, playing,
                           tt, mounted, call>>

\* the frame comes d ms after the previous one, within the time explored
Tick(d) == now + d <= MaxTs /\ TickAt(now + d)

\* React's render task: applies what the ticks queued
Render ==
    /\ mounted
    /\ pending # <<>>
    /\ Commit(pending, subjects)
    /\ tt' = Sampled(pending, subjects, tRef)
    /\ lastOp' = "render"
    /\ UNCHANGED <<variant, loaded, subjects, tRef, lastTsRef, now, mounted,
                   call, run>>

\* what App returns: the loading text while current is empty
\* if (current.length === 0) return <p>Loading EEG Data...</p>
View == IF Len(Current) = 0 THEN "loading" ELSE "dashboard"

\* ------------------------------------------------------------- commands
\* the buttons are rendered only when current is not empty
ControlsShown == mounted /\ Len(Current) > 0

ResumeUpdates(v) == IF ResumesOnCommand(v) THEN <<SetPlaying(TRUE)>> ELSE <<>>

\* fault: Pause/Play leaves the frame-timing reference in place
TogglePlay_KeepsTs ==
    /\ ControlsShown
    /\ Commit(Append(pending, FlipPlaying), subjects)
    /\ lastTsRef' = lastTsRef
    /\ tt' = Sampled(Append(pending, FlipPlaying), subjects, tRef)
    /\ lastOp' = "togglePlay"
    /\ run' = ToggledRun
    /\ UNCHANGED <<variant, loaded, subjects, tRef, now, mounted, call>>

\* fault: Pause/Play restarts the step
TogglePlay_RestartsStep ==
    /\ ControlsShown
    /\ Commit(Append(pending, FlipPlaying), subjects)
    /\ lastTsRef' = 0
    /\ tRef' = 0
    /\ tt' = Sampled(Append(pending, FlipPlaying), subjects, 0)
    /\ lastOp' = "togglePlay"
    /\ run' = ToggledRun
    /\ UNCHANGED <<variant, loaded, subjects, now, mounted, call>>

TogglePlay ==
    /\ ControlsShown
    /\ Commit(Append(pending, FlipPlaying), subjects)
    /\ lastTsRef' = 0
    /\ tt' = Sampled(Append(pending, FlipPlaying), subjects, tRef)
    /\ lastOp' = "togglePlay"
    /\ run' = ToggledRun
    /\ UNCHANGED <<variant, loaded, subjects, tRef, now, mounted, call>>

\* fault: Reset leaves the fraction in place
Reset_KeepsFraction ==
    LET q == pending \o <<SetI(0)>> \o ResumeUpdates(variant)
    IN  /\ ControlsShown
        /\ Commit(q, subjects)
        /\ tRef' = tRef
        /\ lastTsRef' = 0
        /\ tt' = Sampled(q, subjects, tRef)
        /\ lastOp' = "reset"
        /\ run' = StartRun(ApplyQueue(q, Rendered))
        /\ UNCHANGED <<variant, loaded, subjects, now, mounted, call>>

Reset ==
    LET q == pending \o <<SetI(0)>> \o ResumeUpdates(variant)
    IN  /\ ControlsShown
        /\ Commit(q, subjects)
        /\ tRef' = 0
        /\ lastTsRef' = 0
        /\ tt' = Sampled(q, subjects, 0)
        /\ lastOp' = "reset"
        /\ run' = StartRun(ApplyQueue(q, Rendered))
        /\ UNCHANGED <<variant, loaded, subjects, now, mounted, call>>

\* fault: Prev does not wrap below subject 0
PrevSubjectIndex_NoWrap(s, n) == s - 1

PrevSubjectIndex(s, n) == (s - 1 + n) % n

\* fault: Next does not wrap past the last subject
NextSubjectIndex_NoWrap(s, n) == s + 1

NextSubjectIndex(s, n) == (s + 1) % n

PrevSubject ==
    LET q == pending
             \o <<SetSubjectIndex(PrevSubjectIndex(subjectIndex, Len(subjects))), SetI(0)>>
             \o ResumeUpdates(variant)
    IN  /\ ControlsShown
        /\ Commit(q, subjects)
        /\ tRef' = 0
        /\ lastTsRef' = 0
        /\ tt' = Sampled(q, subjects, 0)
        /\ lastOp' = "prevSubject"
        /\ run' = StartRun(ApplyQueue(q, Rendered))
        /\ UNCHANGED <<variant, loaded, subjects, now, mounted, call>>

NextSubject ==
    LET q == pending
             \o <<SetSubjectIndex(NextSubjectIndex(subjectIndex, Len(subjects))), SetI(0)>>
             \o ResumeUpdates(variant)
    IN  /\ ControlsShown
        /\ Commit(q, subjects)
        /\ tRef' = 0
        /\ lastTsRef' = 0
        /\ tt' = Sampled(q, subjects, 0)
        /\ lastOp' = "nextSubject"
        /\ run' = StartRun(ApplyQueue(q, Rendered))
        /\ UNCHANGED <<variant, loaded, subjects, now, mounted, call>>

Next ==
    \/ (~loaded /\ \E d \in Datasets : Load(d))
    \/ \E d \in FrameDeltas : Tick(d)
    \/ Render
    \/ TogglePlay
    \/ Reset
    \/ PrevSubject
    \/ NextSubject

Spec == Init /\ [][Next]_vars

\* ------------------------------------------------------ run to completion
\* the longest interval between two frames
MaxDelta == CHOOSE d \in FrameDeltas : \A e \in FrameDeltas : e <= d

\* Time within which every run over a dataset of the bounds ends: a step
\* takes at most two ticks (the second one finds the fraction above 0), and
\* the first tick on a subject finds the frame-timing reference unset.
RunHorizon == MaxSubjects * (2 * MaxTrials + 1) * MaxDelta

RunTick(d) == now + d <= RunHorizon /\ TickAt(now + d)

\* playback left alone: the load, the frames and React's renders, no click
RunNext ==
    \/ (~loaded /\ \E d \in Datasets : Load(d))
    \/ \E d \in FrameDeltas : RunTick(d)
    \/ Render

\* the browser keeps calling the armed callback at each frame, and React
\* runs the render task it has scheduled
RunSpec ==
    /\ Init
    /\ [][RunNext]_vars
    /\ WF_vars(\E d \in FrameDeltas : RunTick(d))
    /\ WF_vars(Render)

\* ---------------------------------------------------------------- teardown
\* React unmounts App: the cleanup of the tick effect runs (there is one when
\* the effect's last run armed a tick); nothing is rendered and no button
\* exists afterwards
Unmount ==
    /\ mounted
    /\ mounted' = FALSE
    /\ rafPending' = IF Len(Current) > 0 THEN Cancel(rafPending, rafRef)
                                          ELSE rafPending
    /\ lastOp' = "unmount"
    /\ UNCHANGED <<variant, loaded, subjects, subjectIndex, i, playing, tRef,
                   lastTsRef, rafRef, pending, schedTs, now, tt, call, run>>

TeardownNext == Next \/ Unmount

TeardownSpec == Init /\ [][TeardownNext]_vars

\* ------------------------------------------------------------ JS values
\* The values the helpers meet: finite numbers, kept exactly as fractions
\* n/d in lowest terms (the rounding of doubles and the sign of zero are not
\* modelled), NaN, the two infinities, undefined and null.
Abs(x) == IF x < 0 THEN -x ELSE x

RECURSIVE GCD(_, _)
GCD(a, b) == IF b = 0 THEN a ELSE GCD(b, a % b)

Num(n, d) ==
    LET g == GCD(Abs(n), d)
    IN  [k |-> "num", n |-> n \div g, d |-> d \div g]

NaN == [k |-> "NaN", n |-> 0, d |-> 1]
PosInfinity == [k |-> "Infinity", n |-> 1, d |-> 1]
NegInfinity == [k |-> "-Infinity", n |-> -1, d |-> 1]
Undefined == [k |-> "undefined", n |-> 0, d |-> 1]
Null == [k |-> "null", n |-> 0, d |-> 1]

Zero == Num(0, 1)
One == Num(1, 1)

IsNaN(x) == x.k = "NaN"
IsInfinite(x) == x.k \in {"Infinity", "-Infinity"}

\* Number.isFinite(v): false for every value that is not a finite number
NumberIsFinite(v) == v.k = "num"

\* -1, 0 or 1; of a number that is not NaN
Sgn(x) == IF x.n < 0 THEN -1 ELSE IF x.n > 0 THEN 1 ELSE 0

Signed(sign) == IF sign < 0 THEN NegInfinity ELSE PosInfinity

\* a CSV cell that is not a number: Papa.parse (dynamicTyping) leaves it a
\* string, which is not empty (an empty cell is null)
Text(id) == [k |-> "text", n |-> id, d |-> 1]

\* Number(v)
ToNumber(v) ==
    CASE v.k = "undefined" -> NaN
      [] v.k = "null" -> Zero
      [] v.k = "text" -> NaN
      [] OTHER -> v

\* v as a condition: 0, NaN, null and undefined are falsy
Truthy(v) ==
    CASE v.k = "num" -> v.n # 0
      [] v.k \in {"NaN", "undefined", "null"} -> FALSE
      [] OTHER -> TRUE

\* x || 0, of a number x: 0 and NaN are falsy, the infinities are not
OrZero(x) == IF IsNaN(x) \/ x = Zero THEN Zero ELSE x

JsNeg(x) ==
    CASE x.k = "num" -> Num(-x.n, x.d)
      [] x.k = "Infinity" -> NegInfinity
      [] x.k = "-Infinity" -> PosInfinity
      [] OTHER -> NaN

\* a + b
JsAdd(a, b) ==
    IF IsNaN(a) \/ IsNaN(b) THEN NaN
    ELSE IF IsInfinite(a) THEN (IF IsInfinite(b) /\ b # a THEN NaN ELSE a)
    ELSE IF IsInfinite(b) THEN b
    ELSE LET g == GCD(a.d, b.d)
         IN  Num(a.n * (b.d \div g) + b.n * (a.d \div g), (a.d \div g) * b.d)

\* a - b
JsSub(a, b) == JsAdd(a, JsNeg(b))

\* a * b
JsMul(a, b) ==
    IF IsNaN(a) \/ IsNaN(b) THEN NaN
    ELSE IF IsInfinite(a) \/ IsInfinite(b)
           THEN (IF Sgn(a) * Sgn(b) = 0 THEN NaN ELSE Signed(Sgn(a) * Sgn(b)))
    ELSE LET g1 == GCD(Abs(a.n), b.d)
             g2 == GCD(Abs(b.n), a.d)
         IN  Num((a.n \div g1) * (b.n \div g2), (a.d \div g2) * (b.d \div g1))

\* a / b
JsDiv(a, b) ==
    IF IsNaN(a) \/ IsNaN(b) THEN NaN
    ELSE IF IsInfinite(a)
           THEN (IF IsInfinite(b) THEN NaN
                 ELSE Signed(Sgn(a) * (IF Sgn(b) < 0 THEN -1 ELSE 1)))
    ELSE IF IsInfinite(b) THEN Zero
    ELSE IF b.n = 0 THEN (IF a.n = 0 THEN NaN ELSE Signed(Sgn(a)))
    ELSE JsMul(a, Num(Sgn(b) * b.d, Abs(b.n)))

\* a < b: false when either is NaN
JsLt(a, b) ==
    IF IsNaN(a) \/ IsNaN(b) THEN FALSE
    ELSE IF a = b THEN FALSE
    ELSE IF a = NegInfinity \/ b = PosInfinity THEN TRUE
    ELSE IF a = PosInfinity \/ b = NegInfinity THEN FALSE
    ELSE LET g == GCD(a.d, b.d)
         IN  a.n * (b.d \div g) < b.n * (a.d \div g)

\* a <= b
JsLe(a, b) == JsLt(a, b) \/ (a = b /\ ~IsNaN(a))

\* Math.max(a, b), Math.min(a, b): NaN when either is NaN
MathMax(a, b) == IF IsNaN(a) \/ IsNaN(b) THEN NaN ELSE IF JsLt(a, b) THEN b ELSE a
MathMin(a, b) == IF IsNaN(a) \/ IsNaN(b) THEN NaN ELSE IF JsLt(b, a) THEN b ELSE a

\* Math.abs(x)
MathAbs(x) ==
    CASE x.k = "num" -> Num(Abs(x.n), x.d)
      [] IsInfinite(x) -> PosInfinity
      [] OTHER -> NaN

\* ------------------------------------------------------------- helpers
\* const clamp = (x, a, b) => Math.max(a, Math.min(b, x));
clamp(x, a, b) == MathMax(a, MathMin(b, x))

\* const lerp = (a, b, t) => a + (b - a) * t;
lerp(a, b, t) == JsAdd(a, JsMul(JsSub(b, a), t))

\* const safe = (v) => (Number.isFinite(v) ? v : 0);
safe(v) == IF NumberIsFinite(v) THEN v ELSE Zero

\* ------------------------------------------------- computeStrokeSeverity
alphaLowTH == Num(9, 1)
thetaHighTH == Num(11, 2)
deltaHighTH == Num(7, 2)

\* Number(values?.alpha) || 0
Coerced(v) == OrZero(ToNumber(v))

\* fault: the alpha term grows with alpha
alphaLow_Rising(alpha) == clamp(JsDiv(alpha, alphaLowTH), Zero, One)

alphaLow(alpha) == clamp(JsDiv(JsSub(alphaLowTH, alpha), alphaLowTH), Zero, One)

thetaHigh(theta) == clamp(JsDiv(JsSub(theta, thetaHighTH), thetaHighTH), Zero, One)

deltaHigh(delta) == clamp(JsDiv(JsSub(delta, deltaHighTH), deltaHighTH), Zero, One)

\* Math.max(alpha, 0.1)
safeAlpha(alpha) == MathMax(alpha, Num(1, 10))

\* clamp((tar - 0.4) / 1.2, 0, 1) with tar = theta / safeAlpha
tarNorm(alpha, theta) ==
    clamp(JsDiv(JsSub(JsDiv(theta, safeAlpha(alpha)), Num(2, 5)), Num(6, 5)),
          Zero, One)

\* clamp((dar - 0.2) / 1.0, 0, 1) with dar = delta / safeAlpha
darNorm(alpha, delta) ==
    clamp(JsDiv(JsSub(JsDiv(delta, safeAlpha(alpha)), Num(1, 5)), One),
          Zero, One)

\* 0.15 * alphaLow + 0.3 * thetaHigh + 0.3 * deltaHigh + 0.15 * tarNorm
\*   + 0.1 * darNorm, added left to right
WeightedSum(alpha, theta, delta) ==
    JsAdd(JsAdd(JsAdd(JsAdd(JsMul(Num(3, 20), alphaLow(alpha)),
                            JsMul(Num(3, 10), thetaHigh(theta))),
                      JsMul(Num(3, 10), deltaHigh(delta))),
                JsMul(Num(3, 20), tarNorm(alpha, theta))),
          JsMul(Num(1, 10), darNorm(alpha, delta)))

\* fault: the bonus is given when alpha equals theta and delta
alphaSuppressed_Lenient(alpha, theta, delta) ==
    JsLe(alpha, theta) /\ JsLe(alpha, delta)

\* alpha < theta && alpha < delta
alphaSuppressed(alpha, theta, delta) == JsLt(alpha, theta) /\ JsLt(alpha, delta)

\* fault: the score is scaled and not clamped
Scaled_Unclamped(severity) == JsMul(severity, Num(7, 5))

\* clamp(severity * 1.4, 0, 1)
Scaled(severity) == clamp(JsMul(severity, Num(7, 5)), Zero, One)

\* the score of the three coerced band powers
SeverityOf(alpha, theta, delta) ==
    LET severity == WeightedSum(alpha, theta, delta)
    IN  Scaled(IF alphaSuppressed(alpha, theta, delta)
                 THEN JsAdd(severity, Num(1, 5)) ELSE severity)

computeStrokeSeverity(values) ==
    SeverityOf(Coerced(values.alpha), Coerced(values.theta), Coerced(values.delta))

\* ----------------------------------------------------------------- ratios
\* fault: the denominator has no floor
ADR_Unfloored(alpha, delta) == JsDiv(alpha, delta)

\* const ADR = alpha / Math.max(delta, 0.1);
ADR(alpha, delta) == JsDiv(alpha, MathMax(delta, Num(1, 10)))

\* const TAR = theta / Math.max(alpha, 0.1);
TAR(theta, alpha) == JsDiv(theta, MathMax(alpha, Num(1, 10)))

\* ----------------------------------------------------------------- Sample
\* fault: the second sample is the first one
Target_Stays(idx, len) == idx

\* const target = Math.min(i + step, current.length - 1);
Target(idx, len) == Min(idx + step, len - 1)

NumericFields == {"alpha", "beta", "theta", "delta", "t"}

\* the reading App renders of series (current) at trial idx (i) and
\* fraction t (tt): safe(lerp(A.f, B.f, tt)) for each field f
Sample(series, idx, t) ==
    LET A == series[idx + 1]
        B == series[Target(idx, Len(series)) + 1]
    IN  [f \in NumericFields |-> safe(lerp(A[f], B[f], t))]

\* ---------------------------------------------------------- subjectMinMax
\* Math.min(...vals), Math.max(...vals), of a list that is not empty
RECURSIVE MinOf(_)
MinOf(vals) ==
    IF Len(vals) = 1 THEN vals[1] ELSE MathMin(vals[1], MinOf(Tail(vals)))

RECURSIVE MaxOf(_)
MaxOf(vals) ==
    IF Len(vals) = 1 THEN vals[1] ELSE MathMax(vals[1], MaxOf(Tail(vals)))

\* (rows || []).map((r) => r?.[key]).filter(finite)
FiniteValues(rows, key) ==
    SelectSeq([k \in 1..Len(rows) |-> rows[k][key]], NumberIsFinite)

\* fault: the widening has no floor
eps_Unfloored(v) == JsMul(MathAbs(v), Num(1, 20))

\* const eps = Math.max(0.001, Math.abs(min) * 0.05);
eps(v) == MathMax(Num(1, 1000), JsMul(MathAbs(v), Num(1, 20)))

subjectMinMax(rows, key) ==
    LET vals == FiniteValues(rows, key)
    IN  IF Len(vals) = 0 THEN [min |-> Zero, max |-> One]
        ELSE LET min == MinOf(vals)
                 max == MaxOf(vals)
             IN  IF min = max
                   THEN [min |-> JsSub(min, eps(min)), max |-> JsAdd(max, eps(min))]
                   ELSE [min |-> min, max |-> max]

\* ------------------------------------------------------- the load callback
\* .filter((r) => r["trial_number"] != null && r["subject_number"] != null)
\* and, in the radar-only copy,
\* .filter((r) => r["trial_number"] && r["subject_number"])
Present(v, r) ==
    IF v = "radarOnly"
      THEN Truthy(r.trial_number) /\ Truthy(r.subject_number)
      ELSE /\ r.trial_number.k \notin {"null", "undefined"}
           /\ r.subject_number.k \notin {"null", "undefined"}

\* the row object: String(subject_number) is kept as the cell itself (two
\* cells give the same string only when they are equal)
ParsedRow(r) ==
    [subject |-> r.subject_number, t |-> ToNumber(r.trial_number),
     alpha |-> ToNumber(r.Alpha)]

\* .filter((r) => Number.isFinite(r.t)) and, in the radar-only copy,
\* .filter((r) => !isNaN(r.t))
NumberedTrial(v, row) ==
    IF v = "radarOnly" THEN ~IsNaN(row.t) ELSE NumberIsFinite(row.t)

\* const rows = res.data.filter(...).map(...).filter(...)
RECURSIVE ParsedRows(_, _)
ParsedRows(v, data) ==
    IF data = <<>> THEN <<>>
    ELSE LET r == Head(data)
             rest == ParsedRows(v, Tail(data))
         IN  IF Present(v, r) /\ NumberedTrial(v, ParsedRow(r))
               THEN <<ParsedRow(r)>> \o rest
               ELSE rest

\* a property key that is an array index ("0", "2", "10"): the string of a
\* non-negative integer
IsArrayIndex(key) == key.k = "num" /\ key.d = 1 /\ key.n >= 0

\* the keys of rows in the order of their first appearance
RECURSIVE FirstSeen(_, _)
FirstSeen(rows, seen) ==
    IF rows = <<>> THEN <<>>
    ELSE IF Head(rows).subject \in seen
           THEN FirstSeen(Tail(rows), seen)
           ELSE <<Head(rows).subject>>
                \o FirstSeen(Tail(rows), seen \cup {Head(rows).subject})

\* the keys of S in ascending numeric order
RECURSIVE Ascending(_)
Ascending(S) ==
    IF S = {} THEN <<>>
    ELSE LET least == CHOOSE x \in S : \A y \in S : x.n <= y.n
         IN  <<least>> \o Ascending(S \ {least})

\* the keys of the object the reduce builds, in the order Object.values
\* follows: the array indices in ascending numeric order, then the other
\* keys in the order of their creation
OwnKeys(rows) ==
    LET seen == FirstSeen(rows, {})
    IN  Ascending({seen[k] : k \in {j \in 1..Len(seen) : IsArrayIndex(seen[j])}})
        \o SelectSeq(seen, LAMBDA key : ~IsArrayIndex(key))

\* g.sort((a, b) => a.t - b.t): ascending t, rows of equal t in their order
RECURSIVE InsertByT(_, _)
InsertByT(sorted, r) ==
    IF sorted = <<>> THEN <<r>>
    ELSE IF JsLt(r.t, Head(sorted).t)
           THEN <<r>> \o sorted
           ELSE <<Head(sorted)>> \o InsertByT(Tail(sorted), r)

RECURSIVE SortByT(_)
SortByT(g) ==
    IF g = <<>> THEN <<>>
    ELSE InsertByT(SortByT(SubSeq(g, 1, Len(g) - 1)), g[Len(g)])

\* const grouped = Object.values(rows.reduce(...)).map((g) => g.sort(...))
Grouped(rows) ==
    LET keys == OwnKeys(rows)
    IN  [k \in 1..Len(keys) |->
            SortByT(SelectSeq(rows, LAMBDA r : r.subject = keys[k]))]

\* what the complete callback of the copy v hands to setSubjects
LoadedSubjects(v, data) == Grouped(ParsedRows(v, data))

\* ------------------------------------------------------------ gauge range
\* the copies of App that show the two ratio gauges
GaugeCopies == {"arrow_no_yellow.js:329", "part_000:450", "part_000:935"}

\* the rows of every subject
RECURSIVE Flatten(_)
Flatten(subs) == IF subs = <<>> THEN <<>> ELSE Head(subs) \o Flatten(Tail(subs))

\* const adrs = rows.map((r) => r.ADR).filter(Number.isFinite);
\* adrMin = Math.min(...adrs, 0); adrMax = Math.max(...adrs, 1);
\* set once by the load callback (setStats), over the rows of all subjects
statsRange(rows, key) ==
    LET vals == FiniteValues(rows, key)
    IN  [min |-> MinOf(Append(vals, Zero)), max |-> MaxOf(Append(vals, One))]

\* the min and max props App hands to the RatioGauge of key, when the
\* dataset is subs and subjectIndex is si
GaugeRange(copy, subs, si, key) ==
    IF copy = "arrow_no_yellow.js:329"
      THEN subjectMinMax(CurrentOf(subs, si), key)
      ELSE statsRange(Flatten(subs), key)

\* ---------------------------------------------------- AperiodicSlopeChart
Max(a, b) == IF a >= b THEN a ELSE b

\* arr.slice(from, to), for 0 <= from
Slice(arr, from, to) == SubSeq(arr, from + 1, Min(to, Len(arr)))

recentWindow == 5

\* const slopes = history.map(d => Number(d.slope) || 0);
slopes(history) == [k \in 1..Len(history) |-> Coerced(history[k].slope)]

\* fault: the window is the whole history
recentSlopes_All(history, currentIndex) == slopes(history)

\* slopes.slice(Math.max(0, currentIndex - recentWindow), currentIndex + 1)
recentSlopes(history, currentIndex) ==
    Slice(slopes(history), Max(0, currentIndex - recentWindow), currentIndex + 1)

\* Math.abs(last - first) / recentSlopes.length, 0 when there is one value
slopeChange(recent) ==
    IF Len(recent) > 1
      THEN JsDiv(MathAbs(JsSub(recent[Len(recent)], recent[1])), Num(Len(recent), 1))
      ELSE Zero

\* slopeChange > 0.3 ? "HIGH" : slopeChange > 0.15 ? "MEDIUM" : "NORMAL"
alertLevel(change) ==
    IF JsLt(Num(3, 10), change) THEN "HIGH"
    ELSE IF JsLt(Num(3, 20), change) THEN "MEDIUM"
    ELSE "NORMAL"

\* what AperiodicSlopeChart shows for history at currentIndex
classifyTrendAlert(history, currentIndex) ==
    alertLevel(slopeChange(recentSlopes(history, currentIndex)))

\* const slopeHistory = current.slice(0, i + 1).map(d => ({ time: d.t, slope: d.slope }))
slopeHistory(series, idx) ==
    LET head == Slice(series, 0, idx + 1)
    IN  [k \in 1..Len(head) |-> [time |-> head[k].t, slope |-> head[k].slope]]

\* --------------------------------------------------- the helpers, called
\* band powers a caller can hand over
BandInputs ==
    {Num(0, 1), Num(1, 20), Num(1, 10), Num(1, 2), Num(1, 1), Num(3, 1),
     Num(9, 2), Num(11, 2), Num(7, 1), Num(9, 1), Num(11, 1), Num(12, 1),
     Num(-1, 1), NaN, PosInfinity, NegInfinity, Undefined, Null}

\* numerators and denominators of the ratios
RatioInputs ==
    {Num(-2, 1), Num(0, 1), Num(1, 20), Num(1, 10), Num(1, 5), Num(1, 1),
     Num(7, 2), Num(12, 1), Num(500, 1)}

\* field values of a parsed row
FieldInputs == {Num(2, 1), Num(4, 1), Num(-3, 2), Num(0, 1), Num(7, 10), NaN, PosInfinity}

Fractions == {Num(0, 1), Num(1, 4), Num(1, 2), Num(1, 1)}

\* the row of trial k (1-based) whose fields hold a and b
RowOf(k, a, b) ==
    [alpha |-> a, beta |-> b, theta |-> JsNeg(b), delta |-> a, t |-> Num(k, 1)]

\* series of one to three rows
SeriesInputs ==
    UNION { { <<RowOf(1, a, b)>>,
              <<RowOf(1, a, b), RowOf(2, b, a)>>,
              <<RowOf(1, a, a), RowOf(2, a, b), RowOf(3, b, b)>> } :
            <<a, b>> \in FieldInputs \X FieldInputs }

\* aperiodic slopes of a parsed row
SlopeInputs ==
    {Num(0, 1), Num(3, 4), Num(3, 2), Num(2, 1), Num(-1, 2), Undefined, PosInfinity}

\* series whose slope is a up to row p and b from there on
SlopeSeriesInputs ==
    UNION { { [k \in 1..len |-> [t |-> Num(k, 1),
                                 slope |-> IF k <= p THEN a ELSE b]] :
                p \in 1..len, a \in SlopeInputs, b \in SlopeInputs } :
            len \in 1..MaxHistory }

\* ratio values of a parsed row: alpha / Math.max(delta, 0.1) is NaN or
\* infinite when alpha is
RatioValues ==
    {Num(-2, 1), Num(0, 1), Num(1, 100), Num(1, 1), Num(50, 1), NaN, PosInfinity}

\* the rows of a subject, by their ratios
RatioRow(x) == [ADR |-> x, TAR |-> JsAdd(x, One)]

RatioSeriesInputs ==
    {<<>>}
    \cup { <<RatioRow(x)>> : x \in RatioValues }
    \cup { <<RatioRow(x), RatioRow(y)>> : x \in RatioValues, y \in RatioValues }
    \cup { <<RatioRow(x), RatioRow(y), RatioRow(z)>> :
             x \in RatioValues, y \in RatioValues, z \in RatioValues }

\* datasets of one or two subjects, by their ratios
GaugeSeriesInputs ==
    { <<RatioRow(x)>> : x \in {Num(1, 2), Num(2, 1), Num(3, 1)} }
    \cup { <<RatioRow(x), RatioRow(y)>> :
             x \in {Num(1, 2), Num(2, 1), Num(3, 1)},
             y \in {Num(1, 2), Num(2, 1), Num(3, 1)} }

GaugeDatasetInputs ==
    { <<s>> : s \in GaugeSeriesInputs }
    \cup { <<s, u>> : s \in GaugeSeriesInputs, u \in GaugeSeriesInputs }

\* cells of the columns subject_number and trial_number
SubjectCells == {Num(0, 1), Num(2, 1), Num(10, 1), Text(1), Text(3), Null}
TrialCells == {Num(0, 1), Num(1, 1), Undefined, Text(2)}

\* the parsed file: row k holds k in its column Alpha
RECURSIVE DataInputs(_)
DataInputs(len) ==
    IF len = 0 THEN {<<>>}
    ELSE { Append(data, [subject_number |-> s, trial_number |-> t,
                         Alpha |-> Num(len, 1)]) :
             data \in DataInputs(len - 1), s \in SubjectCells, t \in TrialCells }

\* what the helper calls leave alone
engine == <<variant, loaded, subjects, subjectIndex, i, playing, tRef,
            lastTsRef, rafRef, rafPending, pending, schedTs, now, tt, mounted,
            lastOp, run>>

\* each behaviour of CallSpec studies one call
CallSeverity ==
    /\ call = NoCall
    /\ \E a \in BandInputs, th \in BandInputs, de \in BandInputs :
          LET values == [alpha |-> a, theta |-> th, delta |-> de]
          IN  call' = [fn |-> "computeStrokeSeverity", values |-> values,
                       out |-> computeStrokeSeverity(values)]
    /\ UNCHANGED engine

CallRatio ==
    /\ call = NoCall
    /\ \E x \in RatioInputs, d \in RatioInputs :
          call' = [fn |-> "ratio", x |-> x, d |-> d,
                   adr |-> ADR(x, d), tar |-> TAR(x, d)]
    /\ UNCHANGED engine

CallSample ==
    /\ call = NoCall
    /\ \E series \in SeriesInputs, t \in Fractions :
          \E idx \in 0..(Len(series) - 1) :
              call' = [fn |-> "Sample", series |-> series, i |-> idx, tt |-> t,
                       out |-> Sample(series, idx, t)]
    /\ UNCHANGED engine

\* <AperiodicSlopeChart history={slopeHistory} currentIndex={i} />
CallTrend ==
    /\ call = NoCall
    /\ \E series \in SlopeSeriesInputs :
          \E idx \in 0..(Len(series) - 1) :
              LET history == slopeHistory(series, idx)
              IN  call' = [fn |-> "classifyTrendAlert", history |-> history,
                           currentIndex |-> idx,
                           out |-> classifyTrendAlert(history, idx)]
    /\ UNCHANGED engine

\* const adrRange = subjectMinMax(current, "ADR");
CallMinMax ==
    /\ call = NoCall
    /\ \E rows \in RatioSeriesInputs, key \in {"ADR", "TAR"} :
          call' = [fn |-> "subjectMinMax", rows |-> rows, key |-> key,
                   out |-> subjectMinMax(rows, key)]
    /\ UNCHANGED engine

\* <RatioGauge title="ADR" value={ADR} min={...} max={...} />, as a copy of
\* App renders it on subject si of the dataset subs
CallGaugeRange ==
    /\ call = NoCall
    /\ \E copy \in GaugeCopies, subs \in GaugeDatasetInputs :
          \E si \in 0..(Len(subs) - 1) :
              call' = [fn |-> "gaugeRange", copy |-> copy, subjects |-> subs,
                       subjectIndex |-> si,
                       adr |-> GaugeRange(copy, subs, si, "ADR"),
                       tar |-> GaugeRange(copy, subs, si, "TAR")]
    /\ UNCHANGED engine

\* complete: (res) => { ...; setSubjects(grouped); ... }
CallLoad ==
    /\ call = NoCall
    /\ \E len \in 0..MaxRows :
          \E data \in DataInputs(len) :
              call' = [fn |-> "load", variant |-> variant, data |-> data,
                       out |-> LoadedSubjects(variant, data)]
    /\ UNCHANGED engine

CallNext ==
    \/ CallSeverity
    \/ CallRatio
    \/ CallSample
    \/ CallTrend
    \/ CallMinMax
    \/ CallGaugeRange
    \/ CallLoad

CallSpec == Init /\ [][CallNext]_vars

\* ------------------------------------------------------ claim vocabulary
N == Len(subjects)

LastIndexOf(si) == Len(CurrentOf(subjects, si)) - 1

AtDatasetEnd(c) == c.subjectIndex = N - 1 /\ c.i = LastIndexOf(c.subjectIndex)

\* this step is a tick
TickStep == lastOp' = "tick"

\* the tick of this step (at timestamp now') brings the fraction to 1
ReachesOne == Accumulate(tRef, ElapsedAt(now')) = msPerStep

Finished == ~Cursor.playing /\ AtDatasetEnd(Cursor) /\ tRef = msPerStep

\* C1: a tick in state Playing that brings interpolationFraction to 1 on the
\* last trial of the last subject makes the state Paused and moves neither
\* trialPosition nor subjectPosition (the fraction stays 1); and a tick in
\* the finished state leaves subjectPosition, trialPosition and
\* interpolationFraction as they are.
C1_EndOfDataset ==
    /\ [][(TickStep /\ Cursor.playing /\ ReachesOne /\ AtDatasetEnd(Cursor))
            => /\ ~Cursor'.playing
               /\ Cursor'.i = Cursor.i
               /\ Cursor'.subjectIndex = Cursor.subjectIndex
               /\ tRef' = msPerStep]_vars
    /\ [][(TickStep /\ Finished)
            => /\ Cursor' = Cursor
               /\ tRef' = tRef
               /\ Finished']_vars

\* a tick has run in the finished state of a dataset of two or more subjects
C1_Witness ==
    /\ Finished
    /\ pending = <<>>
    /\ lastOp = "tick"
    /\ N >= 2
    /\ lastTsRef > 0
    /\ now > lastTsRef

\* C2: a tick in state Playing that brings interpolationFraction to 1 while
\* trialPosition is below the last trial index of the subject increases
\* trialPosition by exactly 1, sets the fraction to 0 and leaves
\* subjectPosition and the playing state unchanged.
C2_TrialBoundary ==
    [][(TickStep /\ Cursor.playing /\ ReachesOne
          /\ Cursor.i < LastIndexOf(Cursor.subjectIndex))
         => /\ Cursor'.i = Cursor.i + 1
            /\ tRef' = 0
            /\ Cursor'.subjectIndex = Cursor.subjectIndex
            /\ Cursor'.playing = Cursor.playing]_vars

\* the state a tick leaves when it crosses from trial 0 to trial 1 of a
\* subject of three trials, before React has rendered it
C2_Witness ==
    /\ lastOp = "tick"
    /\ Len(Current) = 3
    /\ i = 0
    /\ Cursor.i = 1
    /\ tRef = 0
    /\ lastTsRef = now

\* C3: a tick in state Playing that brings interpolationFraction to 1 on the
\* last trial of a subject that is not the last one increases
\* subjectPosition by exactly 1, sets trialPosition and the fraction to 0
\* and unsets the frame-timing reference; and a tick that finds the
\* reference unset adds no elapsed time to the fraction.
C3_SubjectBoundary ==
    /\ [][(TickStep /\ Cursor.playing /\ ReachesOne
             /\ Cursor.i = LastIndexOf(Cursor.subjectIndex)
             /\ Cursor.subjectIndex < N - 1)
            => /\ Cursor'.subjectIndex = Cursor.subjectIndex + 1
               /\ Cursor'.i = 0
               /\ tRef' = 0
               /\ lastTsRef' = 0]_vars
    /\ [][(TickStep /\ lastTsRef = 0) => tRef' = tRef]_vars

\* the first tick on subject 1 has run, the cursor having come there from
\* subject 0 by a tick's advance (no command since the load)
C3_Witness ==
    /\ lastOp = "tick"
    /\ run.subject = 0
    /\ subjectIndex = 1
    /\ i = 0
    /\ pending = <<>>
    /\ tRef = 0
    /\ lastTsRef = now
    /\ now >= 2 * msPerStep
\* the original statement of C4: on a subject of three trials, started on
\* trial 0 in state Playing with no command since, ticks whose elapsed
\* times total three step durations leave the cursor on trial 2 of it
C4_Original ==
    (/\ run.subject # -1
     /\ run.elapsed = 3 * msPerStep
     /\ Len(CurrentOf(subjects, run.subject)) = 3)
    => (Cursor.subjectIndex = run.subject /\ Cursor.i = 2)

\* the run of C4 on the last subject of the dataset, by ticks of at most
\* one step duration each
FineRunOnLast ==
    /\ run.subject # -1
    /\ run.fine
    /\ run.subject = N - 1
    /\ Len(CurrentOf(subjects, run.subject)) = 3

\* C4 (amended): on a subject of three trials that is the last subject of
\* the dataset, started on trial 0 in state Playing with no command since,
\* ticks that each add at most one step duration and whose elapsed times
\* total three step durations leave the cursor on trial 2; and every tick
\* of such a run that advances the trial sets the fraction to 0.
C4_ThreeSteps ==
    /\ []((FineRunOnLast /\ run.elapsed = 3 * msPerStep)
            => (Cursor.subjectIndex = run.subject /\ Cursor.i = 2))
    /\ [][(TickStep /\ FineRunOnLast /\ Cursor'.i # Cursor.i) => tRef' = 0]_vars

\* three step durations of ticks have passed on a last subject of three
\* trials and the cursor is on its trial 2
C4_Witness ==
    /\ FineRunOnLast
    /\ run.elapsed = 3 * msPerStep
    /\ lastOp = "tick"
    /\ Cursor.i = 2

\* the statement of C5: after reset, prevSubject or nextSubject the state
\* is Playing, in every variant
C5_ResumeOnCommand ==
    [][(lastOp' \in {"reset", "prevSubject", "nextSubject"}) => Cursor'.playing]_vars

\* C6: reset, in any state, sets trialPosition and interpolationFraction to
\* 0, unsets the frame-timing reference, and changes neither subjectPosition
\* nor the dataset.
C6_Reset ==
    [][(lastOp' = "reset")
         => /\ i' = 0
            /\ Cursor'.i = 0
            /\ tRef' = 0
            /\ lastTsRef' = 0
            /\ Cursor'.subjectIndex = Cursor.subjectIndex
            /\ subjects' = subjects]_vars

\* reset has acted away from subject 0, after time has passed
C6_Witness ==
    /\ lastOp = "reset"
    /\ subjectIndex >= 1
    /\ now >= msPerStep
    /\ i = 0
    /\ tRef = 0

\* C7: with N subjects and s the subjectPosition of the view the button
\* belongs to, nextSubject sets subjectPosition to s + 1, or to 0 from the
\* last subject, and prevSubject sets it to s - 1, or to N - 1 from subject
\* 0; both set trialPosition and the fraction to 0 and unset the
\* frame-timing reference.
C7_PrevNext ==
    /\ [][(lastOp' = "nextSubject")
            => /\ subjectIndex' = IF subjectIndex = N - 1 THEN 0 ELSE subjectIndex + 1
               /\ i' = 0 /\ tRef' = 0 /\ lastTsRef' = 0]_vars
    /\ [][(lastOp' = "prevSubject")
            => /\ subjectIndex' = IF subjectIndex = 0 THEN N - 1 ELSE subjectIndex - 1
               /\ i' = 0 /\ tRef' = 0 /\ lastTsRef' = 0]_vars

\* nextSubject has wrapped from the last of three subjects to subject 0
C7_Witness ==
    /\ lastOp = "nextSubject"
    /\ N = 3
    /\ subjectIndex = 0
    /\ run.subject \in {-1, 0}
    /\ now >= msPerStep

\* C8: togglePlay flips the state between Playing and Paused, changes none
\* of subjectPosition, trialPosition and interpolationFraction, and unsets
\* the frame-timing reference; every step that resumes playback leaves the
\* reference unset, and a tick that runs while paused, or that finds the
\* reference unset, leaves the fraction as it is.
C8_TogglePlay ==
    /\ [][(lastOp' = "togglePlay")
            => /\ Cursor'.playing = ~Cursor.playing
               /\ Cursor'.subjectIndex = Cursor.subjectIndex
               /\ Cursor'.i = Cursor.i
               /\ tRef' = tRef
               /\ lastTsRef' = 0]_vars
    /\ [][(~Cursor.playing /\ Cursor'.playing) => lastTsRef' = 0]_vars
    /\ [][(TickStep /\ (~Cursor.playing \/ lastTsRef = 0)) => tRef' = tRef]_vars

\* playback has been resumed in the middle of a step, after time has passed
C8_Witness ==
    /\ lastOp = "togglePlay"
    /\ playing
    /\ tRef = 600
    /\ lastTsRef = 0
    /\ now >= 2 * msPerStep

\* C9: a tick that runs while the state is not Playing changes none of
\* subjectPosition, trialPosition, interpolationFraction, the frame-timing
\* reference and the playing flag, and leaves exactly one tick armed.
C9_PausedTick ==
    [][(TickStep /\ ~playing)
         => /\ UNCHANGED <<subjectIndex, i, playing, tRef, lastTsRef, pending>>
            /\ Cardinality(rafPending') = 1
            /\ rafRef' \in Handles(rafPending')]_vars

\* a tick has run while paused in the middle of a step
C9_Witness ==
    /\ lastOp = "tick"
    /\ ~playing
    /\ tRef = 600
    /\ lastTsRef = 0

InRange(c) ==
    /\ c.subjectIndex \in 0..(N - 1)
    /\ c.i \in 0..LastIndexOf(c.subjectIndex)

\* C10: once a non-empty dataset is loaded, in every reachable state the
\* cursor is consistent, as rendered and with the queued updates applied:
\* 0 <= subjectPosition < number of subjects, 0 <= trialPosition < length of
\* that subject's series, 0 <= interpolationFraction <= 1.
C10_CursorConsistent ==
    (loaded /\ N > 0)
    => /\ InRange(Rendered)
       /\ InRange(Cursor)
       /\ tRef \in 0..msPerStep

\* after ticks, while paused, prevSubject has wrapped from subject 0 to the
\* last of three subjects
C10_Witness ==
    /\ lastOp = "prevSubject"
    /\ N = 3
    /\ subjectIndex = 2
    /\ now >= msPerStep
    /\ ~playing

\* the (subject, trial) position of a cursor
Position(c) == <<c.subjectIndex, c.i>>

\* the position that follows p in dataset order
NextPosition(p) ==
    IF p[2] < LastIndexOf(p[1]) THEN <<p[1], p[2] + 1>> ELSE <<p[1] + 1, 0>>

\* C11: left alone after the load (no click), with frames that keep coming
\* and renders that get done, playback starts on trial 0 of subject 0 in
\* state Playing, every move of the cursor goes to the next (subject, trial)
\* position in dataset order, and the cursor eventually is on the last
\* trial of the last subject with the fraction at 1 and playback stopped.
C11_RunToCompletion ==
    /\ [][(lastOp' = "load" /\ Len(subjects') > 0)
            => (Position(Cursor') = <<0, 0>> /\ Cursor'.playing /\ tRef' = 0)]_vars
    /\ [][(Position(Cursor') # Position(Cursor))
            => (TickStep /\ Position(Cursor') = NextPosition(Position(Cursor)))]_vars
    /\ ((loaded /\ N > 0) ~> Finished)

\* a run over three subjects, two of them of three trials, has finished
C11_Witness ==
    /\ Finished
    /\ lastOp = "tick"
    /\ N = 3
    /\ Len(subjects[1]) = 3
    /\ Len(subjects[2]) = 1
    /\ Len(subjects[3]) = 3
    /\ pending # <<>>

\* the cursor and the refs as App is constructed
InitialCursor ==
    /\ Rendered = [subjectIndex |-> 0, i |-> 0, playing |-> TRUE]
    /\ pending = <<>>
    /\ tRef = 0
    /\ lastTsRef = 0

\* C13: while the dataset is empty (before the load, or after a load that
\* gave zero subjects) no animation-frame callback is pending and none was
\* ever requested, the cursor and the refs are as constructed, the view is
\* the loading text with no button, and no tick or command step happens.
C13_EmptyDataset ==
    /\ []((N = 0) => /\ rafPending = {}
                     /\ rafRef = 0
                     /\ InitialCursor
                     /\ View = "loading"
                     /\ ~ControlsShown)
    /\ [][(N = 0) => lastOp' = "load"]_vars

\* a load that gave zero subjects has completed
C13_Witness ==
    /\ loaded
    /\ N = 0
    /\ lastOp = "load"

\* C14: at most one animation-frame callback is pending; it is the one
\* rafRef names and its closure is the one of the latest render, so that a
\* restart of the tick loop leaves no callback of an earlier render
\* pending; a tick leaves exactly the callback it re-armed; and once the
\* view is torn down no callback is pending, so none fires.
C14_SinglePendingTick ==
    /\ [](/\ Cardinality(rafPending) <= 1
          /\ \A cb \in rafPending : cb.handle = rafRef /\ cb.closure = Rendered
          /\ ~mounted => rafPending = {})
    /\ [][TickStep => (mounted /\ Cardinality(rafPending') = 1)]_vars
    /\ [][(lastOp' = "unmount") => rafPending' = {}]_vars

\* the view has been torn down while a tick's advance awaited its render
C14_Witness ==
    /\ ~mounted
    /\ lastOp = "unmount"
    /\ N >= 2
    /\ pending # <<>>
    /\ now >= msPerStep

\* the fraction a value of tRef stands for
Fraction(t) == Num(t, msPerStep)

\* const alpha = safe(lerp(A.alpha, B.alpha, tt)), of a series of the dataset
AlphaAt(series, idx, t) ==
    safe(lerp(Num(series[idx + 1].alpha, 1),
              Num(series[Target(idx, Len(series)) + 1].alpha, 1),
              Fraction(t)))

\* the alpha reading the view and the charts hold: the one of the last render
ShownAlpha == AlphaAt(Current, i, tt)

\* the interpolation at the cursor's position and fraction
CursorAlpha == AlphaAt(CurrentOf(subjects, Cursor.subjectIndex), Cursor.i, tRef)

\* the statement of C12: after a tick during playback, with no render
\* outstanding, the reading the view holds is the interpolation at the
\* cursor's fraction
C12_ReadingFollowsFraction ==
    (/\ lastOp = "tick"
     /\ mounted
     /\ N > 0
     /\ playing
     /\ pending = <<>>)
    => ShownAlpha = CursorAlpha

\* a call of computeStrokeSeverity is under study
SeverityCall == call.fn = "computeStrokeSeverity"

\* a finite number that is not negative
NonNegative(v) == NumberIsFinite(v) /\ JsLe(Zero, v)

InUnitInterval(v) == NumberIsFinite(v) /\ JsLe(Zero, v) /\ JsLe(v, One)

\* C15: for finite alpha, theta and delta that are not negative,
\* computeStrokeSeverity returns a number in [0, 1].
C15_SeverityInRange ==
    (/\ SeverityCall
     /\ NonNegative(call.values.alpha)
     /\ NonNegative(call.values.theta)
     /\ NonNegative(call.values.delta))
    => InUnitInterval(call.out)

\* a call whose weighted score times 1.4 is above 1 has returned 1
C15_Witness ==
    /\ SeverityCall
    /\ call.values = [alpha |-> Zero, theta |-> Num(12, 1), delta |-> Num(12, 1)]
    /\ JsLt(One, JsMul(WeightedSum(Zero, Num(12, 1), Num(12, 1)), Num(7, 5)))
    /\ call.out = One

\* the substitution the statement of C16 describes
ZeroUnlessFinite(v) == IF NumberIsFinite(v) THEN v ELSE Zero

\* the statement of C16: the result is the one of the call with every
\* non-finite or missing input replaced by 0, and is a finite number in [0, 1]
C16_NonFiniteAsZero ==
    SeverityCall
    => /\ call.out = computeStrokeSeverity(
                         [alpha |-> ZeroUnlessFinite(call.values.alpha),
                          theta |-> ZeroUnlessFinite(call.values.theta),
                          delta |-> ZeroUnlessFinite(call.values.delta)])
       /\ InUnitInterval(call.out)

\* alpha in [0, 9]
InAlphaRange(v) == NonNegative(v) /\ JsLe(v, alphaLowTH)

\* C17: for theta and delta fixed and not negative, and alpha1 <= alpha2
\* both in [0, 9], computeStrokeSeverity at alpha1 is at least
\* computeStrokeSeverity at alpha2.
C17_MonotoneInAlpha ==
    (/\ SeverityCall
     /\ InAlphaRange(call.values.alpha)
     /\ NonNegative(call.values.theta)
     /\ NonNegative(call.values.delta))
    => \A alpha2 \in BandInputs :
          (InAlphaRange(alpha2) /\ JsLe(call.values.alpha, alpha2))
          => JsLe(computeStrokeSeverity([call.values EXCEPT !.alpha = alpha2]),
                  call.out)

\* a call at alpha = 1 whose result is strictly above the one at alpha = 9
\* and strictly below the one at alpha = 0
C17_Witness ==
    /\ SeverityCall
    /\ call.values = [alpha |-> One, theta |-> Num(3, 1), delta |-> Num(1, 2)]
    /\ JsLt(computeStrokeSeverity([call.values EXCEPT !.alpha = alphaLowTH]), call.out)
    /\ JsLt(call.out, computeStrokeSeverity([call.values EXCEPT !.alpha = Zero]))

\* C18: at alpha = theta = delta = 0 the alpha-suppression bonus is not
\* given and computeStrokeSeverity returns the share of alphaLow = 1 alone,
\* 1.4 x 0.15 = 0.21.
C18_ZeroBaseline ==
    (SeverityCall /\ call.values = [alpha |-> Zero, theta |-> Zero, delta |-> Zero])
    => /\ ~alphaSuppressed(Zero, Zero, Zero)
       /\ alphaLow(Zero) = One
       /\ call.out = JsMul(Num(7, 5), JsMul(Num(3, 20), One))
       /\ call.out = Num(21, 100)

\* computeStrokeSeverity has been called with the three band powers at 0
C18_Witness ==
    /\ SeverityCall
    /\ call.values = [alpha |-> Zero, theta |-> Zero, delta |-> Zero]
    /\ call.out = Num(21, 100)

\* the floor of the ratios' denominators
RatioFloor == Num(1, 10)

\* C19: with numerator x and denominator d, ADR and TAR are x / 0.1 when
\* d <= 0.1 (so the same for d = 0 and d = 0.05) and x / d when d > 0.1;
\* the quotient is returned as it is, however large.
C19_RatioFloor ==
    (call.fn = "ratio")
    => /\ JsLe(call.d, RatioFloor)
            => /\ call.adr = JsDiv(call.x, RatioFloor)
               /\ call.tar = JsDiv(call.x, RatioFloor)
               /\ call.adr = ADR(call.x, Zero)
               /\ call.adr = ADR(call.x, Num(1, 20))
       /\ JsLt(RatioFloor, call.d)
            => /\ call.adr = JsDiv(call.x, call.d)
               /\ call.tar = JsDiv(call.x, call.d)

\* the ratio of 500 to a denominator of 0.05 is 5000
C19_Witness ==
    /\ call.fn = "ratio"
    /\ call.x = Num(500, 1)
    /\ call.d = Num(1, 20)
    /\ call.adr = Num(5000, 1)
    /\ call.tar = Num(5000, 1)

\* C20: with A the row at trialPosition and B the row at
\* min(trialPosition + 1, lastIndex), Sample returns for each field whose
\* values in A and B are finite A.field + (B.field - A.field) x fraction:
\* A's value at fraction 0, B's value at fraction 1, and 3 at fraction 0.5
\* when A holds 2 and B holds 4.
C20_SampleInterpolates ==
    (call.fn = "Sample")
    => LET A == call.series[call.i + 1]
           B == call.series[Min(call.i + 1, Len(call.series) - 1) + 1]
       IN  \A f \in NumericFields :
              (NumberIsFinite(A[f]) /\ NumberIsFinite(B[f]))
              => /\ call.out[f] = JsAdd(A[f], JsMul(JsSub(B[f], A[f]), call.tt))
                 /\ (call.tt = Zero) => call.out[f] = A[f]
                 /\ (call.tt = One) => call.out[f] = B[f]
                 /\ (A[f] = Num(2, 1) /\ B[f] = Num(4, 1) /\ call.tt = Num(1, 2))
                       => call.out[f] = Num(3, 1)

\* Sample has been taken half way from a row holding 2 to a row holding 4
C20_Witness ==
    /\ call.fn = "Sample"
    /\ Len(call.series) = 2
    /\ call.i = 0
    /\ call.tt = Num(1, 2)
    /\ call.series[1].alpha = Num(2, 1)
    /\ call.series[2].alpha = Num(4, 1)
    /\ call.out.alpha = Num(3, 1)
    /\ call.out.t = Num(3, 2)

\* the statement of C21: each field of the reading is the interpolation
\* between A's and B's values with every non-finite one replaced by 0 first,
\* and is never NaN
C21_CoercedBeforeLerp ==
    (call.fn = "Sample")
    => LET A == call.series[call.i + 1]
           B == call.series[Target(call.i, Len(call.series)) + 1]
       IN  \A f \in NumericFields :
              /\ call.out[f] = lerp(ZeroUnlessFinite(A[f]), ZeroUnlessFinite(B[f]),
                                    call.tt)
              /\ ~IsNaN(call.out[f])

\* the slope values of the history a call of classifyTrendAlert was given
CallSlopes == [k \in 1..Len(call.history) |-> Coerced(call.history[k].slope)]

\* |last - first| / count over the values at indices lo..hi of CallSlopes
ChangeOver(lo, hi) ==
    IF hi - lo + 1 < 2 THEN Zero
    ELSE JsDiv(MathAbs(JsSub(CallSlopes[hi + 1], CallSlopes[lo + 1])),
               Num(hi - lo + 1, 1))

\* C22: classifyTrendAlert takes the slope values at indices
\* max(0, currentIndex - 5) .. currentIndex (at most 6 values), sets change
\* to |last - first| / count (0 when there are fewer than 2 values) and
\* returns HIGH when change > 0.3, MEDIUM when 0.15 < change <= 0.3 and
\* NORMAL otherwise; 6 identical slopes give NORMAL and a jump of 2.0 across
\* 5 samples gives HIGH.
C22_TrendAlert ==
    (call.fn = "classifyTrendAlert")
    => LET hi == call.currentIndex
           lo == IF hi - 5 > 0 THEN hi - 5 ELSE 0
           count == hi - lo + 1
           change == ChangeOver(lo, hi)
       IN  /\ count <= 6
           /\ call.out = "HIGH" <=> JsLt(Num(3, 10), change)
           /\ call.out = "MEDIUM" <=> (JsLt(Num(3, 20), change) /\ JsLe(change, Num(3, 10)))
           /\ call.out \in {"HIGH", "MEDIUM", "NORMAL"}
           /\ (count = 6 /\ \A k \in lo..hi : CallSlopes[k + 1] = CallSlopes[lo + 1])
                 => call.out = "NORMAL"
           /\ (count = 5 /\ MathAbs(JsSub(CallSlopes[hi + 1], CallSlopes[lo + 1])) = Num(2, 1))
                 => call.out = "HIGH"

\* the slope has jumped by 2.0 within the last six of eight values
C22_Witness ==
    /\ call.fn = "classifyTrendAlert"
    /\ Len(call.history) = 8
    /\ call.currentIndex = 7
    /\ CallSlopes[3] = Zero
    /\ CallSlopes[8] = Num(2, 1)
    /\ call.out = "HIGH"

\* the finite values of the key in the rows of a call of subjectMinMax
CallFinite ==
    {v \in {call.rows[k][call.key] : k \in 1..Len(call.rows)} : NumberIsFinite(v)}

\* C23: subjectMinMax over rows whose finite values of the key all equal one
\* value v returns (v - eps, v + eps) with eps = max(0.001, 5% of |v|), so
\* eps >= 0.001 and the returned min is strictly below the returned max.
C23_RangeWidening ==
    (call.fn = "subjectMinMax")
    => \A v \in CallFinite :
          (CallFinite = {v})
          => LET e == MathMax(Num(1, 1000), JsMul(Num(1, 20), MathAbs(v)))
             IN  /\ call.out = [min |-> JsSub(v, e), max |-> JsAdd(v, e)]
                 /\ JsLe(Num(1, 1000), e)
                 /\ JsLt(call.out.min, call.out.max)

\* three rows of which two hold 0 and one holds no finite value: the range
\* is widened by the floor of 0.001
C23_Witness ==
    /\ call.fn = "subjectMinMax"
    /\ call.key = "ADR"
    /\ Len(call.rows) = 3
    /\ call.rows[1].ADR = Zero
    /\ call.rows[2].ADR = NaN
    /\ call.rows[3].ADR = Zero
    /\ call.out = [min |-> Num(-1, 1000), max |-> Num(1, 1000)]

\* the statement of C24: in every copy that shows the gauges, the range of
\* each gauge is the one of the active subject's ratio values, whatever the
\* other subjects hold, and so follows subjectPosition
C24_RangePerSubject ==
    (call.fn = "gaugeRange")
    => LET active == call.subjects[call.subjectIndex + 1]
       IN  /\ call.adr = subjectMinMax(active, "ADR")
           /\ call.tar = subjectMinMax(active, "TAR")
           /\ \A subs \in GaugeDatasetInputs :
                 \A si \in 0..(Len(subs) - 1) :
                    (subs[si + 1] = active)
                    => /\ GaugeRange(call.copy, subs, si, "ADR") = call.adr
                       /\ GaugeRange(call.copy, subs, si, "TAR") = call.tar

\* the place in the file of the row a parsed row comes from
FilePlace(row) == row.alpha.n

\* the place in the file of the first row of a series
FirstPlace(series) ==
    CHOOSE p \in {FilePlace(series[k]) : k \in 1..Len(series)} :
        \A k \in 1..Len(series) : p <= FilePlace(series[k])

\* the statement of C25: after load the dataset lists the subjects in the
\* order of their first appearance in the input rows, whatever their
\* identifiers, so that subjectPosition 0 is the first-seen subject
C25_FirstSeenOrder ==
    (call.fn = "load")
    => \A a \in 1..Len(call.out) : \A b \in 1..Len(call.out) :
          (a < b) => FirstPlace(call.out[a]) < FirstPlace(call.out[b])

\* a cell that is missing
Missing(cell) == cell.k \in {"null", "undefined"}

\* the rows the statement of C26 has the load discard
Discarded(r) ==
    \/ Missing(r.subject_number)
    \/ Missing(r.trial_number)
    \/ r.trial_number.k # "num"

\* the series of the dataset that hold the row of place p
SeriesHolding(out, p) ==
    {g \in 1..Len(out) : \E k \in 1..Len(out[g]) : FilePlace(out[g][k]) = p}

\* the statement of C26: in every variant the load discards exactly the rows
\* that miss subject_number or trial_number or whose trial number is not a
\* number; every other row, one whose subject or trial number is 0
\* included, is in exactly one series, as often as in the file, and that
\* series is the only one of its subject
C26_LoadFilter ==
    (call.fn = "load")
    => \A p \in 1..Len(call.data) :
          IF Discarded(call.data[p])
            THEN SeriesHolding(call.out, p) = {}
            ELSE \E g \in 1..Len(call.out) :
                    /\ SeriesHolding(call.out, p) = {g}
                    /\ Cardinality({k \in 1..Len(call.out[g]) :
                                      FilePlace(call.out[g][k]) = p}) = 1
                    /\ \A h \in 1..Len(call.out) : \A k \in 1..Len(call.out[h]) :
                          (call.out[h][k].subject = call.data[p].subject_number)
                          <=> (h = g)

\* the elapsed time of the tick of this step: the time since the stored
\* frame-timing reference, 0 when the reference is unset
ElapsedNow == IF lastTsRef = 0 THEN 0 ELSE now' - lastTsRef

\* min(1, previous + e / 1200), in milliseconds of a step
Accumulated == IF tRef + ElapsedNow < msPerStep THEN tRef + ElapsedNow ELSE msPerStep

\* C27: a tick in state Playing with elapsed time e sets
\* interpolationFraction to min(1, previous + e / 1200) and stores its
\* timestamp as the frame-timing reference, before any boundary handling:
\* below 1 the tick does nothing else, and at 1 the boundary handling is the
\* only thing that changes them again (it restarts the fraction at 0 when it
\* advances, and unsets the reference when it changes subject).
C27_TickAccumulates ==
    [][(TickStep /\ Cursor.playing)
         => /\ (Accumulated < msPerStep)
                  => (tRef' = Accumulated /\ lastTsRef' = now' /\ Cursor' = Cursor)
            /\ (Accumulated = msPerStep)
                  => /\ tRef' \in {msPerStep, 0}
                     /\ lastTsRef' \in {now', 0}
                     /\ (tRef' = msPerStep) => (lastTsRef' = now')
                     /\ (lastTsRef' = 0)
                           => Cursor'.subjectIndex = Cursor.subjectIndex + 1]_vars

\* a tick has added half a step to the fraction on the second trial of a
\* subject
C27_Witness ==
    /\ lastOp = "tick"
    /\ playing
    /\ pending = <<>>
    /\ i = 1
    /\ tRef = 600
    /\ lastTsRef = now
    /\ run.subject # -1
    /\ run.elapsed = msPerStep + 600

\* C28: a single tick advances the cursor by at most one step, however large
\* its elapsed time: the cursor stays or goes to the next (subject, trial)
\* position, trialPosition growing by 1 or subjectPosition by 1, and the
\* time beyond the step boundary is discarded, the fraction restarting at 0.
C28_OneStepPerTick ==
    [][TickStep
         => \/ Position(Cursor') = Position(Cursor)
            \/ /\ Position(Cursor') = NextPosition(Position(Cursor))
               /\ \/ Position(Cursor') = <<Cursor.subjectIndex, Cursor.i + 1>>
                  \/ Position(Cursor') = <<Cursor.subjectIndex + 1, 0>>
               /\ tRef' = 0]_vars

\* a tick that came two and a half steps after the previous one has moved
\* the cursor from trial 0 to trial 1 of a subject of three trials
C28_Witness ==
    /\ lastOp = "tick"
    /\ Len(Current) = 3
    /\ i = 0
    /\ Cursor.i = 1
    /\ tRef = 0
    /\ run.subject # -1
    /\ ~run.fine
    /\ run.elapsed = 3000

\* at the end of the dataset with the fraction at 1, finished or resumed
AtEndFull == AtDatasetEnd(Cursor) /\ tRef = msPerStep

\* C29: once playback has finished, togglePlay makes the state Playing and
\* leaves the cursor and the fraction; the tick that follows returns the
\* state to Paused with subjectPosition, trialPosition and the fraction
\* unchanged; and at the end of the dataset with the fraction at 1 only
\* reset, prevSubject or nextSubject move the cursor or the fraction.
C29_FinishedSticky ==
    /\ [][(lastOp' = "togglePlay" /\ Finished)
            => (Cursor'.playing /\ AtEndFull' /\ Position(Cursor') = Position(Cursor))]_vars
    /\ [][(TickStep /\ Cursor.playing /\ AtEndFull)
            => (Finished' /\ Position(Cursor') = Position(Cursor))]_vars
    /\ [][(AtEndFull /\ (Position(Cursor') # Position(Cursor) \/ tRef' # tRef))
            => lastOp' \in {"reset", "prevSubject", "nextSubject"}]_vars

\* playback had finished on the last of two subjects, of two trials,
\* Pause/Play has resumed it and the tick that followed has stopped it again
C29_Witness ==
    /\ run = ResumedAtEnd
    /\ lastOp = "tick"
    /\ Finished
    /\ playing
    /\ pending = <<SetPlaying(FALSE)>>
    /\ lastTsRef = now
    /\ N = 2
    /\ Len(Current) = 2

\* the statement of C30: a tick that moves the cursor has captured the
\* cursor's position, and nextSubject and prevSubject move from the
\* cursor's subjectPosition, advanced by a tick or not
C30_NoStaleClosure ==
    /\ [][(TickStep /\ Position(Cursor') # Position(Cursor))
            => \A cb \in rafPending : Position(cb.closure) = Position(Cursor)]_vars
    /\ [][(lastOp' = "nextSubject")
            => Cursor'.subjectIndex = NextSubjectIndex(Cursor.subjectIndex, N)]_vars
    /\ [][(lastOp' = "prevSubject")
            => Cursor'.subjectIndex = PrevSubjectIndex(Cursor.subjectIndex, N)]_vars
====
